---- MODULE Spec2Model ----
(***************************************************************************)
(* Model of hs_core/hydroshare/resource.py of CommonsShare: the resource   *)
(* publication pipeline (publish_resource), the manifest builder           *)
(* (get_resource_files_manifest) and the versioning / copy lineage         *)
(* (create_empty_resource, create_new_version_resource, copy_resource,     *)
(* delete_resource).                                                       *)
(*                                                                         *)
(* The persisted state (database rows, scratch directories on disk) is     *)
(* kept apart from the in-memory `resource` object a publish run works on: *)
(* publish_resource assigns resource.minid / resource.doi long before it   *)
(* calls resource.save().                                                  *)
(***************************************************************************)
EXTENDS Integers, Sequences, FiniteSets, TLC

(* ------------------------------ bounds -------------------------------- *)
MaxLin == 3        \* resources created in a run of the lineage operations (SpecLineage)
MaxTmp == 3        \* scratch directories ever created (uuid4 names, never reused)
MaxPub == 1        \* publish runs in a run of the lineage operations (SpecLineage)
MaxFiles == 3      \* files of the resource a function is called on (SpecFunctions)
MaxUploads == 2    \* files handed to check_resource_files (SpecFunctions)
MaxRuns == 2       \* scratch directories of the step-by-step publish runs (SpecSolo)

(* ----------------------------- universes ------------------------------ *)
RIDS == 1..MaxLin  \* short ids; never reused
NoRes == 0
Users == {"u1", "u2"}
PublishTypes == {"minid", "DOI", "other"}
EmptyStr == 0      \* the empty string '' of the doi / minid fields

(* resource files: what ResourceFile and the storage backend hold *)
\* (stored: what istorage.size answers for the file; backend, digest: what
\* istorage.checksum answers)
FSha == [file_name |-> "a.txt", size |-> 1, reference_file_path |-> <<>>,
         stored |-> 1, backend |-> "sha", digest |-> 11]
FRef == [file_name |-> "", size |-> 0, reference_file_path |-> <<"zone", "c.dat">>,
         stored |-> 7, backend |-> "md5", digest |-> 13]
FOdd == [file_name |-> "b.bin", size |-> 2, reference_file_path |-> <<>>,
         stored |-> 2, backend |-> "crc", digest |-> 17]
FileChoices == {<<FSha>>, <<FSha, FRef>>}

VARIABLES
  nextId,          \* next short id create_resource hands out
  exists,          \* [RIDS -> BOOLEAN]  the resource row exists
  owner,           \* [RIDS -> Users]    holder of PrivilegeCodes.OWNER
  raccess,         \* [RIDS -> access record]  ResourceAccess row
  doi,             \* [RIDS -> identifier or EmptyStr]  persisted resource.doi
  minid,           \* [RIDS -> identifier or EmptyStr]  persisted resource.minid
  assessment_id,   \* [RIDS -> 0..1]         persisted resource.assessment_id
  relations,       \* [RIDS -> Seq([type, value])]  'relation' metadata elements, by id
  sources,         \* [RIDS -> Seq(url)]     'source' metadata elements (derived_from)
  idents,          \* [RIDS -> Seq([name, url])]  'Identifier' metadata elements
  publishers,      \* [RIDS -> Nat]  number of 'Publisher' metadata elements
  pubdates,        \* [RIDS -> Nat]  number of 'date' elements of type 'published'
  files,           \* [RIDS -> Seq(file)]  ResourceFile rows, enumeration order
  tmpdirs,         \* set of scratch directories present on disk
  nextTmp,         \* next scratch directory name
  minted,          \* identifiers the registries have issued so far
  bag_modified,    \* [RIDS -> "none" | "true" | "false"]  the bag_modified AVU
  bags,            \* [RIDS -> [id, size, dirty]]  the archive bags/<id>.zip in storage
  packed,          \* [RIDS -> [sha_checksum, size]]  what the last packaging of the
                   \* resource returned, while its content has not changed since
  pending,         \* placeholder handed from create_empty_resource to its caller
  runs,            \* [Procs -> [pc, with, draft, l]]  the publish_resource call each
                   \* caller is in: its position and its locals
  last             \* the call that returned last: [op, pk, err, step, trace, sent, resp]

dbvars == <<nextId, exists, owner, raccess, doi, minid, assessment_id, relations,
            sources, idents, publishers, pubdates, files>>
bagvars == <<bag_modified, bags, packed>>
vars == <<nextId, exists, owner, raccess, doi, minid, assessment_id, relations,
          sources, idents, publishers, pubdates, files,
          tmpdirs, nextTmp, minted, bag_modified, bags, packed, pending, runs, last>>

(* ------------------------------ helpers ------------------------------- *)
\* the access row when a new resource starts out discoverable
DefaultAccessDiscoverable ==
  [public |-> FALSE, discoverable |-> TRUE, immutable |-> FALSE,
   shareable |-> TRUE, published |-> FALSE]

DefaultAccess == [public |-> FALSE, discoverable |-> FALSE, immutable |-> FALSE,
                  shareable |-> TRUE, published |-> FALSE]

NoPending == [ori |-> NoRes, new |-> NoRes, action |-> "none", user |-> "u1"]

\* '{0}/resource/{1}'.format(site, short_id): a path whose last segment is the id
ResourceUrl(id) == <<"site", "resource", id>>

\* link[link.rindex('/')+1:]
ShortIdOfUrl(url) == url[Len(url)]

RECURSIVE FirstIndex(_, _, _)
FirstIndex(s, t, i) ==
  IF i > Len(s) THEN 0
  ELSE IF s[i].type = t THEN i ELSE FirstIndex(s, t, i + 1)

\* relations.all().filter(type=t).exists()
HasRelation(rels, t) == FirstIndex(rels, t, 1) # 0

\* relations.all().filter(type=t).first()
FirstRelation(rels, t) == rels[FirstIndex(rels, t, 1)]

\* metadata.delete_element('relation', eid) for the element at position i
RemoveAt(s, i) == [j \in 1..(Len(s) - 1) |-> IF j < i THEN s[j] ELSE s[j + 1]]

Range(s) == {s[j] : j \in 1..Len(s)}

Lower(t) ==
  IF t = "DOI" THEN "doi"
  ELSE IF t = "TRUE" THEN "true"
  ELSE IF t = "False" THEN "false"
  ELSE t

\* what a publish run hands to the identifier registry, and the status codes the
\* FairShake calls answered (0: the call was not made)
NoRequest == [to |-> "none"]
NoResponses == [auth |-> 0, register |-> 0]

\* the call did not record a modification of the resource
Nobody == "nobody"

\* no checksum and size: the packaging step did not hand any on
NoPack == [sha_checksum |-> <<>>, size |-> 0]
NoCall == [op |-> "none", pk |-> NoRes, err |-> "none", step |-> "none", trace |-> <<>>,
           sent |-> NoRequest, resp |-> NoResponses, pack |-> NoPack, ret |-> <<>>,
           arg |-> <<>>, modified_by |-> Nobody]

\* the record of a call other than publish_resource
Call(op, pk, err) == [NoCall EXCEPT !.op = op, !.pk = pk, !.err = err]

(* ------------------------- check_resource_files ----------------------- *)
\* the upload limit of the settings, in the unit of the file sizes below
FILE_SIZE_LIMIT == 3

\* attribute values: the attribute is missing, it is None, or it is a number
Absent == [has |-> FALSE, none |-> FALSE, int |-> 0]
None == [has |-> TRUE, none |-> TRUE, int |-> 0]
Number(n) == [has |-> TRUE, none |-> FALSE, int |-> n]

\* the files handed to check_resource_files: uploaded tells isinstance(file,
\* UploadedFile), stat is what os.stat answers for the path (None: it raises)
UploadSmall == [uploaded |-> TRUE, _size |-> Number(1), size |-> Number(1), stat |-> None]
UploadBig == [uploaded |-> TRUE, _size |-> None, size |-> Number(5), stat |-> None]
UploadNamed == [uploaded |-> TRUE, _size |-> Absent, size |-> None, stat |-> Number(2)]
OnServer == [uploaded |-> FALSE, _size |-> Absent, size |-> Number(4), stat |-> None]
PathName == [uploaded |-> FALSE, _size |-> Absent, size |-> Absent, stat |-> None]
UploadKinds == {UploadSmall, UploadBig, UploadNamed, OnServer, PathName}

\* lines 221-243: the size one file adds to the sum
SizeOf(file) ==
  IF ~file.uploaded
  THEN IF file._size.has THEN file._size.int
       ELSE IF file.size.has THEN file.size.int
       ELSE IF file.stat.none THEN 0 ELSE file.stat.int
  ELSE IF file._size.has /\ ~file._size.none THEN file._size.int
       ELSE IF file.size.has /\ ~file.size.none THEN file.size.int
       ELSE IF file.stat.none THEN 0 ELSE file.stat.int

RECURSIVE SumSizes(_, _)
SumSizes(fs, i) == IF i > Len(fs) THEN 0 ELSE SizeOf(fs[i]) + SumSizes(fs, i + 1)

\* check_resource_files(files): (status, sum_size)
check_resource_files(fs) == <<TRUE, SumSizes(fs, 1)>>

(* --------------------------- manifest builder -------------------------- *)
\* istorage.checksum(srcfile): the backend's answer, 'sha2:<base64>' or 'md5:<base64>'
BackendChecksum(f) == [prefix |-> f.backend, b64 |-> f.digest]

\* base64.b64decode(checksum[4:]).encode('hex')
HexOf(b64) == <<"hex", b64>>

\* the manifest entry when url and length are assigned inside the try block, after
\* the checksum lookup
ManifestEntryAssignedInTry(rid, f, ok) ==
  LET isref == f.reference_file_path # <<>>
      url == IF isref THEN <<"download", rid>> \o f.reference_file_path
             ELSE <<"download", rid, "data", "contents", f.file_name>>
      named == [filename |-> IF isref
                             THEN f.reference_file_path[Len(f.reference_file_path)]
                             ELSE f.file_name]
      base == ("url" :> url) @@ ("length" :> IF isref THEN f.stored ELSE f.size) @@ named
  IN IF ~ok THEN named
     ELSE IF f.backend = "sha" THEN ("sha256" :> HexOf(f.digest)) @@ base
     ELSE IF f.backend = "md5" THEN ("md5" :> HexOf(f.digest)) @@ base
     ELSE base

\* one manifest entry of get_resource_files_manifest; ok = the checksum lookup
\* did not raise SessionException
ManifestEntry(rid, f, ok) ==
  LET isref == f.reference_file_path # <<>>
      url == IF isref THEN <<"download", rid>> \o f.reference_file_path
             ELSE <<"download", rid, "data", "contents", f.file_name>>
      base == [url |-> url,
               length |-> IF isref THEN f.stored ELSE f.size,
               filename |-> IF isref
                            THEN f.reference_file_path[Len(f.reference_file_path)]
                            ELSE f.file_name]
      checksum == BackendChecksum(f)
  IN IF ~ok THEN base
     ELSE IF checksum.prefix = "sha" THEN ("sha256" :> HexOf(checksum.b64)) @@ base
     ELSE IF checksum.prefix = "md5" THEN ("md5" :> HexOf(checksum.b64)) @@ base
     ELSE base

\* the manifest when the entries are collected in reverse enumeration order
ManifestReversed(rid, fs, failing) ==
  [i \in 1..Len(fs) |->
     ManifestEntry(rid, fs[Len(fs) + 1 - i], (Len(fs) + 1 - i) \notin failing)]

\* get_resource_files_manifest(resource); failing = the files (by position) whose
\* checksum lookup raises SessionException
get_resource_files_manifest(rid, fs, failing) ==
  [i \in 1..Len(fs) |-> ManifestEntry(rid, fs[i], i \notin failing)]

HasReferenceFile(fs) == \E i \in 1..Len(fs) : fs[i].reference_file_path # <<>>

\* a call of get_resource_files_manifest(resource): istorage.size raises for the
\* first reference file when the backend does not answer (size_ok = FALSE), which
\* leaves the function from inside its finally block
ManifestCall(pk, failing, size_ok) ==
  /\ pending = NoPending
  /\ exists[pk]
  /\ last' = IF HasReferenceFile(files[pk]) /\ ~size_ok
             THEN [Call("get_resource_files_manifest", pk, "SessionException") EXCEPT
                     !.arg = [failing |-> failing, size_ok |-> size_ok]]
             ELSE [Call("get_resource_files_manifest", pk, "none") EXCEPT
                     !.ret = get_resource_files_manifest(pk, files[pk], failing),
                     !.arg = [failing |-> failing, size_ok |-> size_ok]]
  /\ UNCHANGED <<dbvars, tmpdirs, nextTmp, minted, runs, bag_modified, bags, packed, pending>>

\* a call of check_resource_files(files)
CheckFilesCall(fs) ==
  /\ pending = NoPending
  /\ last' = [Call("check_resource_files", NoRes, "none") EXCEPT
                !.ret = check_resource_files(fs), !.arg = [files |-> fs]]
  /\ UNCHANGED <<dbvars, tmpdirs, nextTmp, minted, runs, bag_modified, bags, packed, pending>>

(* ------------------------------ the archive --------------------------- *)
\* the archive test when it is off by one
UsesArchiveFromOneFile(fs) == Len(fs) >= 1

\* line 956: resource.files.all().count() > 1
UsesArchive(fs) == Len(fs) > 1

\* no archive in storage. id names the content an archive was built from, size
\* is its length and dirty tells that the content has changed since it was built
NoBag == [id |-> 0, size |-> 0, dirty |-> FALSE]

\* utils.resource_modified(resource, user, overwrite_bag=False) records the user
\* and the time of the modification on the resource and marks the archive as out
\* of date. The AVU is read only for a resource with more than one file (lines
\* 956-958) and files are never added, so it is kept only for those.
FlagAfterChange(flag, fs, flagged) ==
  IF ~UsesArchive(fs) THEN "none" ELSE IF flagged THEN "true" ELSE flag

\* the stored archive after the content of the resource has changed
BagAfterChange(bag, fs) ==
  IF ~UsesArchive(fs) \/ bag.id = 0 THEN NoBag ELSE [bag EXCEPT !.dirty = TRUE]

\* the rebuild when every call writes an archive of its own, also for content
\* that has not changed
create_bag_anew(bag, fs, d) == [id |-> d, size |-> 1 + Len(fs), dirty |-> FALSE]

\* hs_bagit.create_bag(resource), called by the run with scratch directory d: an
\* archive of the present content; rebuilding unchanged content gives an
\* equivalent archive
create_bag(bag, fs, d) ==
  IF bag.id # 0 /\ ~bag.dirty THEN bag
  ELSE [id |-> d, size |-> 1 + Len(fs), dirty |-> FALSE]

(* ------------------------- resource creation -------------------------- *)
\* create_resource: a new private, mutable resource owned by `user`
NewResource(user, fs) ==
  /\ exists' = [exists EXCEPT ![nextId] = TRUE]
  /\ owner' = [owner EXCEPT ![nextId] = user]
  /\ raccess' = [raccess EXCEPT ![nextId] = DefaultAccess]
  /\ files' = [files EXCEPT ![nextId] = fs]
  /\ nextId' = nextId + 1

create_resource(user, fs) ==
  /\ pending = NoPending
  /\ nextId \in RIDS
  /\ NewResource(user, fs)
  /\ last' = [Call("create_resource", nextId, "none") EXCEPT !.arg = [user |-> user]]
  /\ UNCHANGED <<doi, minid, assessment_id, relations, sources, idents, publishers,
                 pubdates, tmpdirs, nextTmp, minted, runs, bagvars, pending>>

\* the owner check made for a new version when it lets every user through
OwnsResourceAnyUser(user, pk) == TRUE

\* line 491: user.uaccess.owns_resource(res)
OwnsResource(user, pk) == owner[pk] = user

\* create_empty_resource(pk, user, action); canview / allow_copy are the answers of
\* the access-control and license predicates; the call record keeps the action
\* the access-control and license predicates
create_empty_resource(pk, user, action, canview, allow_copy) ==
  /\ pending = NoPending
  /\ exists[pk]
  /\ LET err == IF action = "version"
                THEN (IF ~OwnsResource(user, pk) THEN "PermissionDenied" ELSE "none")
                ELSE IF action = "copy"
                THEN (IF ~canview \/ ~allow_copy THEN "PermissionDenied" ELSE "none")
                ELSE "ValidationError"
     IN IF err # "none"
        THEN /\ last' = [Call("create_empty_resource", pk, err) EXCEPT !.step = action]
             /\ UNCHANGED <<dbvars, tmpdirs, nextTmp, minted, runs, bagvars, pending>>
        ELSE /\ nextId \in RIDS
             /\ NewResource(user, <<>>)
             /\ pending' = [ori |-> pk, new |-> nextId, action |-> action, user |-> user]
             /\ last' = [Call("create_empty_resource", pk, "none") EXCEPT !.step = action]
             /\ UNCHANGED <<doi, minid, assessment_id, relations, sources, idents,
                            publishers, pubdates, tmpdirs, nextTmp, minted, runs, bagvars>>

\* utils.copy_resource_files_and_AVUs + utils.copy_and_create_metadata: the files
\* and the metadata elements other than identifier, publisher and date
CopiedRelations(ori) == relations[ori]

\* the original's access row when the immutable flag is set but never saved
ObsoletedAccessUnsaved(a) == a

\* lines 586-589: the original becomes immutable
ObsoletedAccess(a) == [a EXCEPT !.immutable = TRUE]

\* the copied relations when an inherited isVersionOf relation is left in place
WithInherited(copied) == copied

\* lines 568-573: the isVersionOf relation copied over from the original is deleted
WithoutInherited(copied) ==
  LET i == FirstIndex(copied, "isVersionOf", 1)
  IN IF i # 0 THEN RemoveAt(copied, i) ELSE copied

\* the metadata writes of lines 573 and 576 that the database can refuse
DbWrites == {"delete_element", "create_element"}

\* lines 564-576 on the relation elements of both resources: the writes are made
\* one by one, outside any transaction, so a write the database refuses (db) ends
\* the function with the writes before it in place
VersionRelations(rels, ori, new, db) ==
  LET copied == CopiedRelations(ori)
      r1 == [rels EXCEPT
               ![ori] = Append(@, [type |-> "isReplacedBy", value |-> ResourceUrl(new)]),
               ![new] = copied]
      r2 == [r1 EXCEPT ![new] = WithoutInherited(copied)]
      r3 == [r2 EXCEPT ![new] = Append(@, [type |-> "isVersionOf",
                                           value |-> ResourceUrl(ori)])]
  IN IF db = "delete_element" /\ HasRelation(copied, "isVersionOf") THEN r1
     ELSE IF db = "create_element" THEN r2
     ELSE r3

\* the function raised at one of the writes of DbWrites
VersionRaises(ori, db) ==
  \/ db = "create_element"
  \/ db = "delete_element" /\ HasRelation(CopiedRelations(ori), "isVersionOf")

\* create_new_version_resource(ori_res, new_res, user); db names the metadata write
\* the database refuses ("none": it refuses none)
create_new_version_resource(ori, new, user, db) ==
  /\ pending = [ori |-> ori, new |-> new, action |-> "version", user |-> user]
  /\ relations' = VersionRelations(relations, ori, new, db)
  /\ files' = [files EXCEPT ![new] = files[ori]]
  /\ sources' = [sources EXCEPT ![new] = sources[ori]]
  /\ pending' = NoPending
  /\ IF VersionRaises(ori, db)
     THEN /\ bag_modified' = [bag_modified EXCEPT
               ![new] = FlagAfterChange(bag_modified[ori], files[ori], FALSE)]
          /\ last' = [Call("create_new_version_resource", ori, "DatabaseError") EXCEPT
                        !.step = db]
          /\ UNCHANGED <<raccess, bags, packed>>
     ELSE /\ raccess' = [raccess EXCEPT ![ori] = ObsoletedAccess(@)]
          /\ bag_modified' = [bag_modified EXCEPT
               ![new] = FlagAfterChange(bag_modified[ori], files[ori], FALSE),
               ![ori] = FlagAfterChange(@, files[ori], TRUE)]
          /\ bags' = [bags EXCEPT ![ori] = BagAfterChange(@, files[ori])]
          /\ packed' = [packed EXCEPT ![ori] = NoPack]
          /\ last' = Call("create_new_version_resource", ori, "none")
  /\ UNCHANGED <<nextId, exists, owner, doi, minid, assessment_id, idents, publishers,
                 pubdates, tmpdirs, nextTmp, minted, runs>>

\* the copy's source elements when the derived_from element is never created
DerivedFromNothing(srcs, ori) == srcs

\* lines 532-534: create_element('source', derived_from=hs_identifier.url)
DerivedFrom(srcs, ori) == Append(srcs, ResourceUrl(ori))

copy_resource(ori, new) ==
  /\ pending.ori = ori /\ pending.new = new /\ pending.action = "copy"
  /\ relations' = [relations EXCEPT ![new] = CopiedRelations(ori)]
  /\ files' = [files EXCEPT ![new] = files[ori]]
  /\ sources' = [sources EXCEPT ![new] = DerivedFrom(sources[ori], ori)]
  /\ pending' = NoPending
  /\ bag_modified' = [bag_modified EXCEPT
       ![new] = FlagAfterChange(bag_modified[ori], files[ori], FALSE)]
  /\ last' = Call("copy_resource", ori, "none")
  /\ UNCHANGED <<nextId, exists, owner, raccess, doi, minid, assessment_id, idents,
                 publishers, pubdates, tmpdirs, nextTmp, minted, runs, bags, packed>>

(* ------------------------------ deletion ------------------------------ *)
\* res.delete(): the row and, by cascade, its files, metadata and access row
Purge(f, rid, blank) == [f EXCEPT ![rid] = blank]

\* the predecessor's access row after its successor is deleted
PromotedAccess(a) == [a EXCEPT !.immutable = FALSE]

\* the guard of delete_resource when it tests the relation type of the successor side
IsObsoletedByVersionOf(rels) == HasRelation(rels, "isVersionOf")

\* line 744: the resource has been superseded
IsObsoleted(rels) == HasRelation(rels, "isReplacedBy")

delete_resource(pk) ==
  /\ pending = NoPending
  /\ exists[pk]
  /\ IF IsObsoleted(relations[pk])
     THEN /\ last' = Call("delete_resource", pk, "ValidationError")
          /\ UNCHANGED <<dbvars, tmpdirs, nextTmp, minted, runs, bagvars, pending>>
     ELSE LET hasv == HasRelation(relations[pk], "isVersionOf")
              obsolete_res_id ==
                IF hasv THEN ShortIdOfUrl(FirstRelation(relations[pk], "isVersionOf").value)
                ELSE NoRes
          IN IF hasv /\ ~exists[obsolete_res_id]
             THEN \* utils.get_resource_by_shortkey raises: nothing was changed yet
                  /\ last' = Call("delete_resource", pk, "Http404")
                  /\ UNCHANGED <<dbvars, tmpdirs, nextTmp, minted, runs, bagvars, pending>>
             ELSE LET promote == hasv /\
                                 HasRelation(relations[obsolete_res_id], "isReplacedBy")
                      rels1 == IF promote
                               THEN [relations EXCEPT ![obsolete_res_id] =
                                       RemoveAt(@, FirstIndex(@, "isReplacedBy", 1))]
                               ELSE relations
                      racc1 == IF promote
                               THEN [raccess EXCEPT ![obsolete_res_id] = PromotedAccess(@)]
                               ELSE raccess
                  IN /\ relations' = Purge(rels1, pk, <<>>)
                     /\ raccess' = Purge(racc1, pk, DefaultAccess)
                     /\ exists' = Purge(exists, pk, FALSE)
                     /\ owner' = Purge(owner, pk, "u1")
                     /\ doi' = Purge(doi, pk, EmptyStr)
                     /\ minid' = Purge(minid, pk, EmptyStr)
                     /\ assessment_id' = Purge(assessment_id, pk, 0)
                     /\ sources' = Purge(sources, pk, <<>>)
                     /\ idents' = Purge(idents, pk, <<>>)
                     /\ publishers' = Purge(publishers, pk, 0)
                     /\ pubdates' = Purge(pubdates, pk, 0)
                     /\ files' = Purge(files, pk, <<>>)
                     /\ bag_modified' = Purge(bag_modified, pk, "none")
                     /\ bags' = Purge(IF promote
                                      THEN [bags EXCEPT ![obsolete_res_id] =
                                              BagAfterChange(@, files[obsolete_res_id])]
                                      ELSE bags, pk, NoBag)
                     /\ packed' = Purge(IF promote
                                        THEN [packed EXCEPT ![obsolete_res_id] = NoPack]
                                        ELSE packed, pk, NoPack)
                     /\ last' = Call("delete_resource", pk, "none")
                     /\ UNCHANGED <<nextId, tmpdirs, nextTmp, minted, runs, pending>>

(* ------------------- file deletion, metadata update ------------------- *)
\* resource.update_public_and_discoverable(): back to private when the resource
\* no longer qualifies (still_ok = can_be_public_or_discoverable)
update_public_and_discoverable(a, still_ok) ==
  IF a.discoverable /\ ~still_ok
  THEN [a EXCEPT !.public = FALSE, !.discoverable = FALSE]
  ELSE a

\* the steps of delete_resource_file on the files and the access row of the
\* resource; trace lists the calls made, in order
Step(d, c) == [d EXCEPT !.trace = Append(@, c)]

\* lines 885, 888
DeleteFileOnly(d, i) ==
  Step([Step(d, "delete_resource_file_only") EXCEPT !.files = RemoveAt(@, i)],
       "delete_format_metadata_after_delete_file")

\* line 893
Recheck(d, still_ok) ==
  [Step(d, "update_public_and_discoverable") EXCEPT
     !.access = update_public_and_discoverable(@, still_ok)]

\* the body of the loop when the recheck is made right after the file is deleted
DeleteFileRunRecheckEarly(fs, a, i, still_ok) ==
  LET d0 == Step([files |-> fs, access |-> a, trace |-> <<>>],
                 "pre_delete_file_from_resource")
      d1 == Recheck(DeleteFileOnly(d0, i), still_ok)
  IN Step(Step(d1, "post_delete_file_from_resource"), "resource_modified")

\* lines 879-896: the body of the loop for the file that is found, at position i
DeleteFileRun(fs, a, i, still_ok) ==
  LET d0 == Step([files |-> fs, access |-> a, trace |-> <<>>],
                 "pre_delete_file_from_resource")
      d1 == Step(DeleteFileOnly(d0, i), "post_delete_file_from_resource")
  IN Step(Recheck(d1, still_ok), "resource_modified")

\* delete_resource_file(pk, filename_or_id, user): i is the position the name or id
\* stands for; the files of the model belong to no logical file
delete_resource_file(pk, i, user, still_ok) ==
  /\ pending = NoPending
  /\ exists[pk]
  /\ IF i \notin 1..Len(files[pk])
     THEN /\ last' = Call("delete_resource_file", pk, "ObjectDoesNotExist")
          /\ UNCHANGED <<files, raccess, bagvars>>
     ELSE \E d \in {DeleteFileRun(files[pk], raccess[pk], i, still_ok)} :
            /\ files' = [files EXCEPT ![pk] = d.files]
            /\ raccess' = [raccess EXCEPT ![pk] = d.access]
            /\ bag_modified' = [bag_modified EXCEPT ![pk] =
                  FlagAfterChange(@, d.files, "resource_modified" \in Range(d.trace))]
            /\ bags' = [bags EXCEPT ![pk] = BagAfterChange(@, d.files)]
            /\ packed' = [packed EXCEPT ![pk] = NoPack]
            /\ last' = [Call("delete_resource_file", pk, "none") EXCEPT
                          !.trace = d.trace]
  /\ UNCHANGED <<nextId, exists, owner, doi, minid, assessment_id, relations, sources,
                 idents, publishers, pubdates, tmpdirs, nextTmp, minted, runs, pending>>

update_science_metadata(pk, user, still_ok) ==
  /\ pending = NoPending
  /\ exists[pk]
  /\ raccess' = [raccess EXCEPT ![pk] = update_public_and_discoverable(@, still_ok)]
  /\ bag_modified' = [bag_modified EXCEPT ![pk] = FlagAfterChange(@, files[pk], TRUE)]
  /\ bags' = [bags EXCEPT ![pk] = BagAfterChange(@, files[pk])]
  /\ packed' = [packed EXCEPT ![pk] = NoPack]
  /\ last' = Call("update_science_metadata", pk, "none")
  /\ UNCHANGED <<nextId, exists, owner, doi, minid, assessment_id, relations, sources,
                 idents, publishers, pubdates, files, tmpdirs, nextTmp, minted, runs, pending>>

(* --------------------------- publish_resource ------------------------- *)
NoArgs == [name |-> "undefined", url |-> <<>>]

\* the locals of one publish_resource run; doi, minid and assessment_id are the
\* fields of the in-memory `resource` object, written to the database by save() only;
\* trace lists the calls the run has made, in order
IdleLocal ==
  [res |-> NoRes, ptype |-> "minid",
   doi |-> EmptyStr, minid |-> EmptyStr, assessment_id |-> 0,
   tmpdir |-> 0, sha_checksum |-> <<>>, size |-> 0, download_file_url |-> <<>>,
   ident_md_args |-> NoArgs, minted |-> FALSE, trace |-> <<>>,
   flag |-> "none", bag |-> NoBag, pack |-> NoPack,
   user |-> Nobody, modified_by |-> Nobody,
   sent |-> NoRequest, resp |-> NoResponses,
   err |-> "none", step |-> "none"]

\* the two callers that may be inside publish_resource at the same time
Procs == {1, 2}

\* a caller that is not inside publish_resource. pc is the position of the call,
\* with the callers that were inside publish_resource when the call started and
\* draft whether the resource was unpublished then
NoRun == [pc |-> "idle", with |-> {}, draft |-> FALSE, l |-> IdleLocal]

Did(trace, c) == \E i \in 1..Len(trace) : trace[i] = c

Do(l, c) == [l EXCEPT !.trace = Append(@, c)]

\* an exception leaves publish_resource: nothing after the raise runs
Raise(l, err, step) == [l EXCEPT !.err = err, !.step = step]

\* lines 929-933: utils.get_resource_by_shortkey(pk); flag and bag are what the
\* storage backend holds for the resource when the run starts
Load(user, pk, ptype) ==
  [IdleLocal EXCEPT !.res = pk, !.ptype = ptype, !.user = user,
                    !.doi = doi[pk], !.minid = minid[pk],
                    !.assessment_id = assessment_id[pk],
                    !.flag = bag_modified[pk], !.bag = bags[pk]]

\* the publishable predicate when it is tested after the scratch directory is made
CheckPublishableAfterScratch(l, can_be_published) ==
  IF ~can_be_published
  THEN Raise([Do(l, "makedirs") EXCEPT !.tmpdir = nextTmp], "ValidationError", "eligibility")
  ELSE l

\* lines 938-941: the publishable predicate
CheckPublishable(l, can_be_published) ==
  IF ~can_be_published THEN Raise(l, "ValidationError", "eligibility") ELSE l

\* the checksum when it is taken over the path of the downloaded copy, which
\* names the scratch directory of the run
BagChecksumOfScratchPath(bag, d) == <<"hex", 100 + d>>

\* line 971: mca.compute_checksum(tmpfile), the sha256 of the downloaded copy of
\* bags/<res_id>.zip
BagChecksum(bag, d) == <<"hex", 100 + bag.id>>

\* line 972: istorage.size(srcfile)
BagSize(bag) == bag.size

\* the rebuild test when the flag is compared as it is spelled
NeedsRebuildAsSpelled(flag) == flag = "none" \/ flag = "true"

\* line 962: the archive is rebuilt when the flag is absent or 'true'
NeedsRebuild(flag) == flag = "none" \/ Lower(flag) = "true"

\* the collection test when its answer is not looked at
CollectionMissingIgnored(coll_exists) == FALSE

\* lines 957-960: istorage.exists(res_coll) answered False
CollectionMissing(coll_exists) == ~coll_exists

\* the packaging when a single entry without a sha256 field is taken as it is, with
\* an empty checksum
PackageWithoutChecksum(l, fs, failing, size_ok, coll_exists, getfile_ok, d) ==
  IF l.err # "none" THEN l
  ELSE IF HasReferenceFile(fs) /\ ~size_ok
  THEN Raise(Do(l, "manifest"), "SessionException", "manifest")
  ELSE LET m == get_resource_files_manifest(l.res, fs, failing)
           l1 == [Do(Do(l, "manifest"), "makedirs") EXCEPT !.tmpdir = d]
       IN IF UsesArchive(fs)
          THEN IF CollectionMissing(coll_exists) THEN Raise(l1, "ValidationError", "package")
               ELSE LET l2 == IF NeedsRebuild(l.flag)
                              THEN [Do(l1, "create_bag") EXCEPT
                                      !.bag = create_bag(l.bag, fs, d), !.flag = "false"]
                              ELSE l1
                        l3 == Do(l2, "getFile")
                    IN IF ~getfile_ok \/ l2.bag = NoBag
                       THEN Raise(l3, "SessionException", "package")
                       ELSE [l3 EXCEPT !.sha_checksum = BagChecksum(l2.bag, d),
                                       !.size = BagSize(l2.bag),
                                       !.download_file_url = <<"download", "bags", l.res>>,
                                       !.pack = [sha_checksum |-> BagChecksum(l2.bag, d),
                                                 size |-> BagSize(l2.bag)]]
          ELSE IF Len(m) = 0 THEN Raise(l1, "IndexError", "package")
               ELSE [l1 EXCEPT !.sha_checksum = IF "sha256" \in DOMAIN m[1]
                                                THEN m[1].sha256 ELSE <<>>,
                               !.size = m[1].length,
                               !.download_file_url = m[1].url]

\* lines 945-982: build the manifest, create the scratch directory d, then take the
\* archive for more than one file, else the single manifest entry.
\*   failing = files whose checksum lookup raises, size_ok = istorage.size answers,
\*   coll_exists = istorage.exists(res_coll), getfile_ok = istorage.getFile succeeds;
\*   l.flag is the bag_modified AVU, l.bag the stored archive, l.pack the checksum
\*   and size the step hands on
Package(l, fs, failing, size_ok, coll_exists, getfile_ok, d) ==
  IF l.err # "none" THEN l
  ELSE IF HasReferenceFile(fs) /\ ~size_ok
  THEN Raise(Do(l, "manifest"), "SessionException", "manifest")
  ELSE LET m == get_resource_files_manifest(l.res, fs, failing)
           l1 == [Do(Do(l, "manifest"), "makedirs") EXCEPT !.tmpdir = d]
       IN IF UsesArchive(fs)
          THEN IF CollectionMissing(coll_exists) THEN Raise(l1, "ValidationError", "package")
               ELSE LET l2 == IF NeedsRebuild(l.flag)
                              THEN [Do(l1, "create_bag") EXCEPT
                                      !.bag = create_bag(l.bag, fs, d), !.flag = "false"]
                              ELSE l1
                        l3 == Do(l2, "getFile")
                    IN IF ~getfile_ok \/ l2.bag = NoBag
                       THEN Raise(l3, "SessionException", "package")
                       ELSE [l3 EXCEPT !.sha_checksum = BagChecksum(l2.bag, d),
                                       !.size = BagSize(l2.bag),
                                       !.download_file_url = <<"download", "bags", l.res>>,
                                       !.pack = [sha_checksum |-> BagChecksum(l2.bag, d),
                                                 size |-> BagSize(l2.bag)]]
          ELSE IF Len(m) = 0 THEN Raise(l1, "IndexError", "package")
               ELSE IF "sha256" \notin DOMAIN m[1] THEN Raise(l1, "KeyError", "package")
               ELSE [l1 EXCEPT !.sha_checksum = m[1].sha256,
                               !.size = m[1].length,
                               !.download_file_url = m[1].url]

\* the in-memory resource after a mint that leaves the other identifier field alone
MintedKeepingOther(l, t, identifier) ==
  IF t = "minid"
  THEN [l EXCEPT !.minid = identifier, !.minted = TRUE,
                 !.ident_md_args = [name |-> "minid", url |-> <<"minid.bd2k.org", identifier>>]]
  ELSE [l EXCEPT !.doi = identifier, !.minted = TRUE,
                 !.ident_md_args = [name |-> "doi", url |-> <<"ors.datacite.org", identifier>>]]

\* lines 992-995 / 1041-1046: the in-memory resource after a successful mint
Minted(l, t, identifier) ==
  IF t = "minid"
  THEN [l EXCEPT !.minid = identifier, !.doi = EmptyStr, !.minted = TRUE,
                 !.ident_md_args = [name |-> "minid", url |-> <<"minid.bd2k.org", identifier>>]]
  ELSE [l EXCEPT !.doi = identifier, !.minid = EmptyStr, !.minted = TRUE,
                 !.ident_md_args = [name |-> "doi", url |-> <<"ors.datacite.org", identifier>>]]

\* lines 986-990 / 1016-1031: the arguments of mca.register_entity (checksum and
\* locations) and the body of the DataCite PUT (contentSize and contentUrl; the
\* sha256 PropertyValue carries no value)
MintRequest(l, t) ==
  IF t = "minid"
  THEN [to |-> "minid", checksum |-> l.sha_checksum,
        locations |-> <<ResourceUrl(l.res), l.download_file_url>>]
  ELSE [to |-> "doi", contentSize |-> l.size,
        contentUrl |-> <<l.download_file_url, <<"site", "dosapi", "dataobjects", l.res>> >>]

\* the mint when the resource is saved as soon as its identifier is assigned
MintPersisting(l, ok, identifier) ==
  IF l.err # "none" THEN l
  ELSE LET t == Lower(l.ptype) IN
       IF t \in {"minid", "doi"}
       THEN LET lm == [Do(l, "mint") EXCEPT !.sent = MintRequest(l, t)]
            IN IF ~ok
               THEN Raise(lm, IF t = "minid" THEN "MintError" ELSE "PublishException",
                          "mint")
               ELSE Do(Do(Minted(lm, t, identifier), "save"), "rmtree")
       ELSE Do(l, "rmtree")

\* lines 984-1049: mint the identifier (mca.register_entity or the DataCite PUT),
\* then shutil.rmtree(tmpdir), which is reached only when nothing raised before it
Mint(l, ok, identifier) ==
  IF l.err # "none" THEN l
  ELSE LET t == Lower(l.ptype) IN
       IF t \in {"minid", "doi"}
       THEN LET lm == [Do(l, "mint") EXCEPT !.sent = MintRequest(l, t)]
            IN IF ~ok
               THEN Raise(lm, IF t = "minid" THEN "MintError" ELSE "PublishException",
                          "mint")
               ELSE Do(Minted(lm, t, identifier), "rmtree")
       ELSE Do(l, "rmtree")

\* the FairShake login when a refused login is tried a second time
AuthWithRetry(l, status) ==
  IF l.err # "none" THEN l
  ELSE LET la == [Do(l, "auth") EXCEPT !.resp.auth = status]
       IN IF status # 200 THEN Raise(Do(la, "auth"), "PublishException", "auth") ELSE la

\* lines 1054-1068: FairShake login
Auth(l, status) ==
  IF l.err # "none" THEN l
  ELSE LET la == [Do(l, "auth") EXCEPT !.resp.auth = status]
       IN IF status # 200 THEN Raise(la, "PublishException", "auth") ELSE la

\* the FairShake registration when any 2xx answer counts as created
RegisterAccepting200(l, status, id) ==
  IF l.err # "none" THEN l
  ELSE LET lr == [Do(l, "register") EXCEPT !.resp.register = status]
       IN IF status \notin {200, 201} THEN Raise(lr, "PublishException", "register")
          ELSE [lr EXCEPT !.assessment_id = id]

\* lines 1070-1090: FairShake registration
Register(l, status, id) ==
  IF l.err # "none" THEN l
  ELSE LET lr == [Do(l, "register") EXCEPT !.resp.register = status]
       IN IF status # 201 THEN Raise(lr, "PublishException", "register")
          ELSE [lr EXCEPT !.assessment_id = id]

\* the access flags when the shareable assignment of line 1096 is left out
PublishedAccessStillShareable(a) ==
  [a EXCEPT !.public = TRUE, !.discoverable = TRUE, !.immutable = TRUE,
            !.published = TRUE]

\* lines 1094-1098: set_public(True) (also sets discoverable), immutable, shareable,
\* published
PublishedAccess(a) ==
  [a EXCEPT !.public = TRUE, !.discoverable = TRUE, !.immutable = TRUE,
            !.shareable = FALSE, !.published = TRUE]

\* the commit when a FairShake failure is logged instead of raised
ReachesCommitAfterFairShakeFailure(l) ==
  l.step \notin {"eligibility", "manifest", "package", "mint"}

\* line 1092 is reached only when no step raised
ReachesCommit(l) == l.err = "none"

\* utils.resource_modified(resource, user, overwrite_bag=False): the user it is
\* given becomes the last-modifying user of the resource
resource_modified(l, user) ==
  [Do(l, "resource_modified") EXCEPT !.modified_by = user]

\* the commit when the published date is never created
CommitWithoutDate(l) ==
  IF ~ReachesCommit(l) THEN l
  ELSE LET l1 == Do(Do(Do(l, "save"), "flags"), "Publisher")
       IN IF l.ident_md_args = NoArgs THEN Raise(l1, "NameError", "commit")
          ELSE resource_modified(Do(l1, "Identifier"), l.user)

\* lines 1092-1110: save(), the access flags, then the Publisher, date and
\* Identifier elements; ident_md_args is assigned only in the minid and doi branches
Commit(l) ==
  IF ~ReachesCommit(l) THEN l
  ELSE LET l1 == Do(Do(Do(Do(l, "save"), "flags"), "Publisher"), "date")
       IN IF l.ident_md_args = NoArgs THEN Raise(l1, "NameError", "commit")
          ELSE resource_modified(Do(l1, "Identifier"), l.user)

\* the scratch directory when it is named after the resource
ScratchNameOfResource(fresh, pk) == pk

\* line 946: os.path.join(settings.TEMP_FILE_DIR, uuid4().hex), a name no other
\* call has drawn (fresh)
ScratchName(fresh, pk) == fresh

\* the scratch directories on disk when the run is over
ScratchLeft(dirs, l) ==
  IF Did(l.trace, "makedirs") /\ ~Did(l.trace, "rmtree")
  THEN dirs \cup {l.tmpdir} ELSE dirs

\* the body of publish_resource, lines 929-1110, on the locals: d is the name of the
\* scratch directory (uuid4), identifier the one the registry would issue
Run(user, pk, publish_type, can_be_published, x, d, identifier) ==
  LET l0 == CheckPublishable(Load(user, pk, publish_type), can_be_published)
      l1 == Package(l0, files[pk], x.failing, x.size_ok, x.coll_exists,
                    x.getfile_ok, d)
      l2 == Mint(l1, x.mint_ok, identifier)
      l3 == Auth(l2, x.auth)
      l4 == Register(l3, x.register, 1)
  IN Commit(l4)

\* publish_resource(user, pk, publish_type) with the answers of the storage backend
\* (x.failing, x.size_ok, x.coll_exists, x.getfile_ok), of the
\* identifier registry (x.mint_ok; it issues identifier minted + 1) and of FairShake
\* (x.auth, x.register)
publish_resource(user, pk, publish_type, can_be_published, x) ==
  /\ pending = NoPending
  /\ exists[pk]
  /\ nextTmp <= MaxTmp
  /\ \E l \in {Run(user, pk, publish_type, can_be_published, x,
                    ScratchName(nextTmp, pk), minted + 1)} :
        /\ tmpdirs' = ScratchLeft(tmpdirs, l)
        /\ nextTmp' = IF Did(l.trace, "makedirs") THEN nextTmp + 1 ELSE nextTmp
        /\ minted' = IF l.minted THEN minted + 1 ELSE minted
        /\ IF Did(l.trace, "save")
           THEN /\ doi' = [doi EXCEPT ![pk] = l.doi]
                /\ minid' = [minid EXCEPT ![pk] = l.minid]
                /\ assessment_id' = [assessment_id EXCEPT ![pk] = l.assessment_id]
           ELSE UNCHANGED <<doi, minid, assessment_id>>
        /\ raccess' = IF Did(l.trace, "flags")
                      THEN [raccess EXCEPT ![pk] = PublishedAccess(@)] ELSE raccess
        /\ publishers' = IF Did(l.trace, "Publisher")
                         THEN [publishers EXCEPT ![pk] = @ + 1] ELSE publishers
        /\ pubdates' = IF Did(l.trace, "date")
                       THEN [pubdates EXCEPT ![pk] = @ + 1] ELSE pubdates
        /\ idents' = IF Did(l.trace, "Identifier")
                     THEN [idents EXCEPT ![pk] = Append(@, l.ident_md_args)] ELSE idents
        /\ bag_modified' = [bag_modified EXCEPT ![pk] =
                              FlagAfterChange(l.flag, files[pk],
                                              Did(l.trace, "resource_modified"))]
        /\ bags' = [bags EXCEPT ![pk] =
                      IF Did(l.trace, "save") THEN BagAfterChange(l.bag, files[pk])
                      ELSE l.bag]
        /\ packed' = [packed EXCEPT ![pk] =
                        IF Did(l.trace, "save") THEN NoPack
                        ELSE IF l.pack # NoPack THEN l.pack ELSE @]
        /\ last' = [op |-> "publish_resource", pk |-> pk, err |-> l.err,
                    step |-> l.step, trace |-> l.trace, sent |-> l.sent,
                    resp |-> l.resp, pack |-> l.pack, ret |-> <<>>,
                    arg |-> [user |-> user, failing |-> x.failing],
                    modified_by |-> l.modified_by]
  /\ UNCHANGED <<nextId, exists, owner, relations, sources, files, pending, runs>>

\* The answers of the external services to one publish run on files fs: an answer
\* is drawn only for a call the run makes, the calls after the first failing one
\* keep the default.
DefaultAnswers ==
  [failing |-> {}, size_ok |-> TRUE, coll_exists |-> TRUE,
   getfile_ok |-> TRUE, mint_ok |-> TRUE, auth |-> 200, register |-> 201]

StorageAnswers(fs) ==
  (IF HasReferenceFile(fs) THEN {[DefaultAnswers EXCEPT !.size_ok = FALSE]} ELSE {})
  \cup
  (IF Len(fs) > 1
   THEN {[DefaultAnswers EXCEPT !.coll_exists = FALSE],
         [DefaultAnswers EXCEPT !.failing = 1..Len(fs)]}
        \cup
        {[DefaultAnswers EXCEPT !.getfile_ok = g] : g \in BOOLEAN}
   ELSE {[DefaultAnswers EXCEPT !.failing = f] : f \in SUBSET (1..Len(fs))})

FairShakeAnswers(x) ==
  {[x EXCEPT !.auth = 403], [x EXCEPT !.register = 400], [x EXCEPT !.register = 200], x}

RegistryAnswers(x, publish_type) ==
  IF Lower(publish_type) \in {"minid", "doi"}
  THEN {[x EXCEPT !.mint_ok = FALSE]} \cup FairShakeAnswers(x)
  ELSE FairShakeAnswers(x)

Answers(fs, publish_type, can_be_published) ==
  IF ~can_be_published THEN {DefaultAnswers}
  ELSE UNION {IF Package(IdleLocal, fs, x.failing, x.size_ok, x.coll_exists,
                         x.getfile_ok, 1).err # "none"
              THEN {x}
              ELSE RegistryAnswers(x, publish_type) : x \in StorageAnswers(fs)}

(* ------------------- publish_resource, call by call -------------------- *)
\* publish_resource holds no lock and runs in no transaction: between two of its
\* calls to the storage backend, the registries and the database another caller's
\* publish_resource may run. The steps below are the same lines as the step
\* functions above, cut at those calls.

\* the call of caller p moves to position pc with locals l
Goto(p, pc, l) == runs' = [runs EXCEPT ![p].pc = pc, ![p].l = l]

\* the position after a step: an exception ends the call
After(l, pc) == IF l.err # "none" THEN "done" ELSE pc

InFlight(p) == runs[p].pc \notin {"idle", "done"}

\* calls that have started and have not drawn their scratch name yet
Starting == {q \in Procs : runs[q].pc = "scratch"}

\* lines 929-941: load the resource, test the publishable predicate
Begin(p, user, pk, publish_type, can_be_published) ==
  /\ runs[p].pc = "idle"
  /\ pending = NoPending
  /\ exists[pk]
  /\ nextTmp + Cardinality(Starting) <= MaxRuns
  /\ LET l == CheckPublishable(Load(user, pk, publish_type), can_be_published)
     IN runs' = [runs EXCEPT ![p] = [pc |-> After(l, "scratch"),
                                     with |-> {q \in Procs : InFlight(q)},
                                     draft |-> ~raccess[pk].published,
                                     l |-> l]]
  /\ UNCHANGED <<dbvars, tmpdirs, nextTmp, minted, bagvars, pending, last>>

\* lines 945-954: the manifest and the scratch directory; for a resource of at
\* most one file also lines 976-980, which only read the manifest
Scratch(p, failing, size_ok) ==
  /\ runs[p].pc = "scratch"
  /\ LET l == runs[p].l
         fs == files[l.res]
         d == ScratchName(nextTmp, l.res)
         l1 == IF ~UsesArchive(fs)
               THEN Package(l, fs, failing, size_ok, TRUE, TRUE, d)
               ELSE IF HasReferenceFile(fs) /\ ~size_ok
               THEN Raise(Do(l, "manifest"), "SessionException", "manifest")
               ELSE [Do(Do(l, "manifest"), "makedirs") EXCEPT !.tmpdir = d]
     IN /\ Goto(p, After(l1, IF UsesArchive(fs) THEN "flag" ELSE "mint"), l1)
        /\ tmpdirs' = IF Did(l1.trace, "makedirs") THEN tmpdirs \cup {l1.tmpdir}
                      ELSE tmpdirs
        /\ nextTmp' = IF Did(l1.trace, "makedirs") THEN nextTmp + 1 ELSE nextTmp
  /\ UNCHANGED <<dbvars, minted, bagvars, pending, last>>

\* lines 957-960: istorage.exists(res_coll), istorage.getAVU(res_coll, 'bag_modified')
ReadFlag(p, coll_exists) ==
  /\ runs[p].pc = "flag"
  /\ LET l == runs[p].l
         l1 == IF CollectionMissing(coll_exists)
               THEN Raise(l, "ValidationError", "package")
               ELSE [l EXCEPT !.flag = bag_modified[l.res]]
     IN Goto(p, After(l1, IF NeedsRebuild(l1.flag) THEN "bag" ELSE "get"), l1)
  /\ UNCHANGED <<dbvars, tmpdirs, nextTmp, minted, bagvars, pending, last>>

\* lines 962-963: hs_bagit.create_bag(resource) on the archive in storage
CreateBag(p) ==
  /\ runs[p].pc = "bag"
  /\ LET l == runs[p].l
     IN /\ bags' = [bags EXCEPT ![l.res] = create_bag(@, files[l.res], l.tmpdir)]
        /\ bag_modified' = [bag_modified EXCEPT ![l.res] = "false"]
        /\ Goto(p, "get", [Do(l, "create_bag") EXCEPT !.flag = "false"])
  /\ UNCHANGED <<dbvars, tmpdirs, nextTmp, minted, packed, pending, last>>

\* lines 965-971: istorage.getFile(srcfile, tmpfile) and the checksum of the copy
GetFile(p, getfile_ok) ==
  /\ runs[p].pc = "get"
  /\ LET l == runs[p].l
         stored == bags[l.res]
         l1 == IF ~getfile_ok \/ stored = NoBag
               THEN Raise(Do(l, "getFile"), "SessionException", "package")
               ELSE [Do(l, "getFile") EXCEPT
                       !.bag = stored, !.sha_checksum = BagChecksum(stored, l.tmpdir)]
     IN Goto(p, After(l1, "size"), l1)
  /\ UNCHANGED <<dbvars, tmpdirs, nextTmp, minted, bagvars, pending, last>>

\* lines 972-975: istorage.size(srcfile), the size of the archive now in storage
Size(p) ==
  /\ runs[p].pc = "size"
  /\ LET l == runs[p].l
         size == BagSize(bags[l.res])
     IN Goto(p, "mint",
             [l EXCEPT !.size = size,
                       !.download_file_url = <<"download", "bags", l.res>>,
                       !.pack = [sha_checksum |-> l.sha_checksum, size |-> size]])
  /\ UNCHANGED <<dbvars, tmpdirs, nextTmp, minted, bagvars, pending, last>>

\* lines 984-1049: the mint, then shutil.rmtree(tmpdir)
MintStep(p, mint_ok) ==
  /\ runs[p].pc = "mint"
  /\ LET l1 == Mint(runs[p].l, mint_ok, minted + 1)
     IN /\ Goto(p, After(l1, "auth"), l1)
        /\ minted' = IF l1.minted THEN minted + 1 ELSE minted
        /\ tmpdirs' = IF Did(l1.trace, "rmtree") THEN tmpdirs \ {l1.tmpdir} ELSE tmpdirs
  /\ UNCHANGED <<dbvars, nextTmp, bagvars, pending, last>>

\* lines 1054-1068
AuthStep(p, status) ==
  /\ runs[p].pc = "auth"
  /\ LET l1 == Auth(runs[p].l, status) IN Goto(p, After(l1, "register"), l1)
  /\ UNCHANGED <<dbvars, tmpdirs, nextTmp, minted, bagvars, pending, last>>

\* lines 1070-1090
RegisterStep(p, status) ==
  /\ runs[p].pc = "register"
  /\ LET l1 == Register(runs[p].l, status, 1) IN Goto(p, After(l1, "save"), l1)
  /\ UNCHANGED <<dbvars, tmpdirs, nextTmp, minted, bagvars, pending, last>>

\* line 1092: resource.save() writes the fields of the caller's in-memory resource
SaveStep(p) ==
  /\ runs[p].pc = "save"
  /\ LET l == runs[p].l
     IN /\ doi' = [doi EXCEPT ![l.res] = l.doi]
        /\ minid' = [minid EXCEPT ![l.res] = l.minid]
        /\ assessment_id' = [assessment_id EXCEPT ![l.res] = l.assessment_id]
        /\ bags' = [bags EXCEPT ![l.res] = BagAfterChange(@, files[l.res])]
        /\ Goto(p, "flags", Do(l, "save"))
  /\ UNCHANGED <<nextId, exists, owner, raccess, relations, sources, idents, publishers,
                 pubdates, files, tmpdirs, nextTmp, minted, bag_modified, packed,
                 pending, last>>

\* lines 1094-1098
FlagsStep(p) ==
  /\ runs[p].pc = "flags"
  /\ LET l == runs[p].l
     IN /\ raccess' = [raccess EXCEPT ![l.res] = PublishedAccess(@)]
        /\ Goto(p, "elements", Do(l, "flags"))
  /\ UNCHANGED <<nextId, exists, owner, doi, minid, assessment_id, relations, sources,
                 idents, publishers, pubdates, files, tmpdirs, nextTmp, minted, bagvars,
                 pending, last>>

\* lines 1100-1110: the Publisher, date and Identifier elements, resource_modified
ElementsStep(p) ==
  /\ runs[p].pc = "elements"
  /\ LET l == runs[p].l
         l1 == Do(Do(l, "Publisher"), "date")
         l2 == IF l.ident_md_args = NoArgs THEN Raise(l1, "NameError", "commit")
               ELSE resource_modified(Do(l1, "Identifier"), l.user)
     IN /\ publishers' = [publishers EXCEPT ![l.res] = @ + 1]
        /\ pubdates' = [pubdates EXCEPT ![l.res] = @ + 1]
        /\ idents' = IF Did(l2.trace, "Identifier")
                     THEN [idents EXCEPT ![l.res] = Append(@, l.ident_md_args)]
                     ELSE idents
        /\ bag_modified' = [bag_modified EXCEPT ![l.res] =
                              FlagAfterChange(@, files[l.res],
                                              Did(l2.trace, "resource_modified"))]
        /\ Goto(p, "done", l2)
  /\ UNCHANGED <<nextId, exists, owner, raccess, doi, minid, assessment_id, relations,
                 sources, files, tmpdirs, nextTmp, minted, bags, packed, pending, last>>

\* the call returns or raises to its caller
Return(p) ==
  /\ runs[p].pc = "done"
  /\ LET l == runs[p].l
     IN last' = [op |-> "publish_resource", pk |-> l.res, err |-> l.err,
                 step |-> l.step, trace |-> l.trace, sent |-> l.sent,
                 resp |-> l.resp, pack |-> l.pack, ret |-> <<>>,
                 arg |-> [user |-> l.user, failing |-> {}],
                 modified_by |-> l.modified_by]
  /\ runs' = [runs EXCEPT ![p] = NoRun]
  /\ UNCHANGED <<dbvars, tmpdirs, nextTmp, minted, bagvars, pending>>

\* a step of the call caller p is in, with the answers of the outside world
Advance(p) ==
  \/ \E f \in {{}, {1}}, ok \in BOOLEAN : Scratch(p, f, ok)
  \/ \E ok \in BOOLEAN : ReadFlag(p, ok)
  \/ CreateBag(p)
  \/ \E ok \in BOOLEAN : GetFile(p, ok)
  \/ Size(p)
  \/ \E ok \in BOOLEAN : MintStep(p, ok)
  \/ \E status \in {200, 403} : AuthStep(p, status)
  \/ \E status \in {201, 400} : RegisterStep(p, status)
  \/ SaveStep(p)
  \/ FlagsStep(p)
  \/ ElementsStep(p)

(* ---------------------------- specification --------------------------- *)
Init ==
  /\ nextId = 1
  /\ exists = [r \in RIDS |-> FALSE]
  /\ owner = [r \in RIDS |-> "u1"]
  /\ raccess = [r \in RIDS |-> DefaultAccess]
  /\ doi = [r \in RIDS |-> EmptyStr]
  /\ minid = [r \in RIDS |-> EmptyStr]
  /\ assessment_id = [r \in RIDS |-> 0]
  /\ relations = [r \in RIDS |-> <<>>]
  /\ sources = [r \in RIDS |-> <<>>]
  /\ idents = [r \in RIDS |-> <<>>]
  /\ publishers = [r \in RIDS |-> 0]
  /\ pubdates = [r \in RIDS |-> 0]
  /\ files = [r \in RIDS |-> <<>>]
  /\ tmpdirs = {}
  /\ nextTmp = 1
  /\ minted = 0
  /\ bag_modified = [r \in RIDS |-> "none"]
  /\ bags = [r \in RIDS |-> NoBag]
  /\ packed = [r \in RIDS |-> NoPack]
  /\ pending = NoPending
  /\ runs = [p \in Procs |-> NoRun]
  /\ last = NoCall

\* runs of the publication pipeline on one resource created by create_resource;
\* runs on different resources share the scratch names and the registry only
Next ==
  \/ \E fs \in FileChoices : nextId = 1 /\ create_resource("u1", fs)
  \/ \E r \in RIDS : delete_resource(r)
  \/ \E r \in RIDS, i \in 1..2, k \in BOOLEAN : delete_resource_file(r, i, "u1", k)
  \/ \E r \in RIDS, k \in BOOLEAN : update_science_metadata(r, "u1", k)
  \/ \E u \in Users, r \in RIDS, t \in PublishTypes, k \in BOOLEAN :
       \E x \in Answers(files[r], t, k) : publish_resource(u, r, t, k, x)

Spec == Init /\ [][Next]_vars

\* versioning, copying and deleting, with first publish runs whose external calls
\* all succeed
NextLineage ==
  \/ create_resource("u1", <<FSha>>)
  \/ \E r \in RIDS, u \in Users, a \in {"version", "fork"} :
       create_empty_resource(r, u, a, TRUE, TRUE)
  \/ \E r \in RIDS, u \in Users, v, c \in BOOLEAN : create_empty_resource(r, u, "copy", v, c)
  \/ create_new_version_resource(pending.ori, pending.new, pending.user, "none")
  \/ copy_resource(pending.ori, pending.new)
  \/ \E r \in RIDS : delete_resource(r)
  \/ \E u \in Users, r \in RIDS :
       /\ ~raccess[r].published
       /\ nextTmp <= MaxPub
       /\ publish_resource(u, r, "minid", TRUE, DefaultAnswers)

SpecLineage == Init /\ [][NextLineage]_vars

\* version creation and deletion only, every call running to its end
NextChain ==
  \/ \E u \in Users : create_resource(u, <<FSha>>)
  \/ \E r \in RIDS, u \in Users : create_empty_resource(r, u, "version", TRUE, TRUE)
  \/ create_new_version_resource(pending.ori, pending.new, pending.user, "none")
  \/ \E r \in RIDS : delete_resource(r)

SpecChain == Init /\ [][NextChain]_vars

\* version creation and deletion when the database may refuse a metadata write of
\* create_new_version_resource
NextVersions ==
  \/ create_resource("u1", <<FSha>>)
  \/ \E r \in RIDS, u \in Users : create_empty_resource(r, u, "version", TRUE, TRUE)
  \/ \E db \in DbWrites \cup {"none"} :
       create_new_version_resource(pending.ori, pending.new, pending.user, db)
  \/ \E r \in RIDS : delete_resource(r)

SpecVersions == Init /\ [][NextVersions]_vars

\* publish runs on a resource whose bag_modified AVU and archive were left by code
\* that ran before; the archive then has a name that no run of the model uses
FlagValues == {"none", "true", "TRUE", "false", "False"}
PreBuilt(fs, flag) ==
  [id |-> MaxTmp + 1, size |-> 1 + Len(fs), dirty |-> Lower(flag) = "true"]

InitPackage ==
  \E fs \in FileChoices \cup {<<FRef, FSha, FOdd>>}, flag \in FlagValues :
    /\ nextId = 2
    /\ exists = [r \in RIDS |-> r = 1]
    /\ owner = [r \in RIDS |-> "u1"]
    /\ raccess = [r \in RIDS |-> DefaultAccess]
    /\ doi = [r \in RIDS |-> EmptyStr]
    /\ minid = [r \in RIDS |-> EmptyStr]
    /\ assessment_id = [r \in RIDS |-> 0]
    /\ relations = [r \in RIDS |-> <<>>]
    /\ sources = [r \in RIDS |-> <<>>]
    /\ idents = [r \in RIDS |-> <<>>]
    /\ publishers = [r \in RIDS |-> 0]
    /\ pubdates = [r \in RIDS |-> 0]
    /\ files = [r \in RIDS |-> IF r = 1 THEN fs ELSE <<>>]
    /\ tmpdirs = {}
    /\ nextTmp = 1
    /\ minted = 0
    /\ bag_modified = [r \in RIDS |-> IF r = 1 /\ UsesArchive(fs) THEN flag ELSE "none"]
    /\ bags = [r \in RIDS |-> IF r = 1 /\ UsesArchive(fs) /\ flag # "none"
                              THEN PreBuilt(fs, flag) ELSE NoBag]
    /\ packed = [r \in RIDS |-> NoPack]
    /\ pending = NoPending
    /\ runs = [p \in Procs |-> NoRun]
    /\ last = [Call("create_resource", 1, "none") EXCEPT !.arg = [user |-> "u1"]]

NextPackage ==
  \E u \in Users, t \in PublishTypes, k \in BOOLEAN :
    \E x \in Answers(files[1], t, k) :
       nextTmp <= MaxPub /\ publish_resource(u, 1, t, k, x)

SpecPackage == InitPackage /\ [][NextPackage]_vars

\* calls of single functions: one resource has been created with up to MaxFiles
\* files, a second one may be created by either user
FileKinds == {FSha, FRef, FOdd}
FileLists == UNION {[1..n -> FileKinds] : n \in 0..MaxFiles}

InitFunctions ==
  \E fs \in FileLists :
    /\ nextId = 2
    /\ exists = [r \in RIDS |-> r = 1]
    /\ owner = [r \in RIDS |-> "u1"]
    /\ raccess = [r \in RIDS |-> DefaultAccess]
    /\ doi = [r \in RIDS |-> EmptyStr]
    /\ minid = [r \in RIDS |-> EmptyStr]
    /\ assessment_id = [r \in RIDS |-> 0]
    /\ relations = [r \in RIDS |-> <<>>]
    /\ sources = [r \in RIDS |-> <<>>]
    /\ idents = [r \in RIDS |-> <<>>]
    /\ publishers = [r \in RIDS |-> 0]
    /\ pubdates = [r \in RIDS |-> 0]
    /\ files = [r \in RIDS |-> IF r = 1 THEN fs ELSE <<>>]
    /\ tmpdirs = {}
    /\ nextTmp = 1
    /\ minted = 0
    /\ bag_modified = [r \in RIDS |-> "none"]
    /\ bags = [r \in RIDS |-> NoBag]
    /\ packed = [r \in RIDS |-> NoPack]
    /\ pending = NoPending
    /\ runs = [p \in Procs |-> NoRun]
    /\ last = [Call("create_resource", 1, "none") EXCEPT !.arg = [user |-> "u1"]]

UploadLists == UNION {[1..n -> UploadKinds] : n \in 0..MaxUploads}

\* (check_resource_files looks at the files that are to be attached to the resource
\* created next)
NextFunctions ==
  \/ \E fs \in UploadLists : nextId = 2 /\ CheckFilesCall(fs)
  \/ \E u \in Users, fs \in FileChoices : nextId = 2 /\ create_resource(u, fs)
  \/ \E ok \in BOOLEAN, failing \in SUBSET (1..Len(files[1])) : ManifestCall(1, failing, ok)

SpecFunctions == InitFunctions /\ [][NextFunctions]_vars

\* the resources 1 and 2 exist already and are published from now on: resource 1 has
\* one file, or two files with the flag and the archive that code that ran before
\* has left; resource 2 has one file
InitConcurrent ==
  \E fs \in FileChoices, flag \in {"none", "true", "false"} :
    /\ UsesArchive(fs) \/ flag = "none"
    /\ nextId = 3
    /\ exists = [r \in RIDS |-> r \in {1, 2}]
    /\ owner = [r \in RIDS |-> "u1"]
    /\ raccess = [r \in RIDS |-> DefaultAccess]
    /\ doi = [r \in RIDS |-> EmptyStr]
    /\ minid = [r \in RIDS |-> EmptyStr]
    /\ assessment_id = [r \in RIDS |-> 0]
    /\ relations = [r \in RIDS |-> <<>>]
    /\ sources = [r \in RIDS |-> <<>>]
    /\ idents = [r \in RIDS |-> <<>>]
    /\ publishers = [r \in RIDS |-> 0]
    /\ pubdates = [r \in RIDS |-> 0]
    /\ files = [r \in RIDS |-> IF r = 1 THEN fs ELSE IF r = 2 THEN <<FSha>> ELSE <<>>]
    /\ tmpdirs = {}
    /\ nextTmp = 1
    /\ minted = 0
    /\ bag_modified = [r \in RIDS |-> IF r = 1 THEN flag ELSE "none"]
    /\ bags = [r \in RIDS |-> IF r = 1 /\ flag # "none" THEN PreBuilt(fs, flag) ELSE NoBag]
    /\ packed = [r \in RIDS |-> NoPack]
    /\ pending = NoPending
    /\ runs = [p \in Procs |-> NoRun]
    /\ last = NoCall

\* two callers, each calling publish_resource once: caller 1 for resource 1, caller
\* 2 for either resource, with a known publish type
NextConcurrent ==
  \/ \E p \in Procs, r \in {1, 2}, t \in {"minid", "DOI"}, k \in BOOLEAN :
       r <= p /\ Begin(p, "u1", r, t, k)
  \/ \E p \in Procs : Advance(p)

SpecConcurrent == InitConcurrent /\ [][NextConcurrent]_vars

\* one caller, calling publish_resource again and again; every call that
\* publish_resource makes to the outside world returns
NextSolo ==
  \/ \E r \in {1, 2}, t \in PublishTypes, k \in BOOLEAN : Begin(1, "u1", r, t, k)
  \/ Advance(1)
  \/ Return(1)

SpecSolo == InitConcurrent /\ [][NextSolo]_vars /\ WF_vars(Advance(1))

(* ------------------------------- properties --------------------------- *)
Nonempty(v) == v # EmptyStr

\* the access flags of a published resource
IsPublishedAccess(a) ==
  a.public /\ a.discoverable /\ a.immutable /\ a.published /\ ~a.shareable

\* C1: when publish_resource has returned without an exception, exactly one of the
\* resource's doi and minid is non-empty and its flags are public, discoverable,
\* immutable, published and not shareable.
C1_SuccessfulPublishState ==
  (last.op = "publish_resource" /\ last.err = "none") =>
     /\ Nonempty(doi[last.pk]) # Nonempty(minid[last.pk])
     /\ IsPublishedAccess(raccess[last.pk])

\* a second successful publish, of type doi, of a resource that held a minid
C1_Witness ==
  /\ last.op = "publish_resource" /\ last.err = "none"
  /\ Nonempty(doi[last.pk])
  /\ \E i \in 1..Len(idents[last.pk]) : idents[last.pk][i].name = "minid"

\* C2: a publish_resource call that raises in the manifest build, the packaging, the
\* identifier mint or the FairShake login/registration leaves the persisted access
\* flags as they were and adds no Identifier, Publisher or published-date element.
C2_FailureBeforeCommitKeepsDraft ==
  [][(/\ last'.op = "publish_resource"
      /\ last'.err # "none"
      /\ last'.step \in {"manifest", "package", "mint", "auth", "register"})
     => UNCHANGED <<raccess, idents, publishers, pubdates>>]_vars

\* a draft resource whose registration failed after its identifier was minted
C2_Witness ==
  /\ last.op = "publish_resource" /\ last.step = "register"
  /\ last.err = "PublishException"
  /\ Did(last.trace, "mint")
  /\ ~raccess[last.pk].published
  /\ idents[last.pk] = <<>>

\* C3: publish_resource on a resource that fails the publishable predicate raises
\* ValidationError and has no effect: no scratch directory, no archive, no call to
\* the registry or to FairShake, no change of any persisted field.
C3_IneligibleHasNoEffect ==
  [][\A u \in Users, r \in RIDS, t \in PublishTypes :
       (last'.pk = r /\ publish_resource(u, r, t, FALSE, DefaultAnswers))
         => /\ last'.err = "ValidationError"
            /\ last'.trace = <<>>
            /\ UNCHANGED <<dbvars, tmpdirs, nextTmp, minted, pending>>]_vars

\* an ineligible publish request was refused while a scratch directory slot was free
C3_Witness ==
  /\ last.op = "publish_resource" /\ last.step = "eligibility"
  /\ last.err = "ValidationError"
  /\ exists[last.pk]
  /\ nextTmp = 1

\* C4: a resource that is published and immutable stays published and immutable
\* for as long as it exists, whatever operation runs next.
C4_PublishedNeverReverts ==
  [][\A r \in RIDS :
       (exists[r] /\ raccess[r].published /\ raccess[r].immutable /\ exists'[r])
          => (raccess'[r].published /\ raccess'[r].immutable)]_vars

\* C5: once the doi or the minid of a resource is non-empty, no operation on the
\* existing resource changes, replaces or clears it.
C5_IdentifierImmutableOnceMinted ==
  [][\A r \in RIDS :
       (exists[r] /\ exists'[r])
          => /\ Nonempty(doi[r]) => doi'[r] = doi[r]
             /\ Nonempty(minid[r]) => minid'[r] = minid[r]]_vars

\* C6: in every persisted state, no resource has both a doi and a minid.
C6_NeverBothIdentifiers ==
  \A r \in RIDS : ~(Nonempty(doi[r]) /\ Nonempty(minid[r]))

\* a resource published as minid and then again as doi: the minid was cleared
C6_Witness ==
  \E r \in RIDS :
    /\ Nonempty(doi[r]) /\ ~Nonempty(minid[r])
    /\ \E i \in 1..Len(idents[r]) : idents[r][i].name = "minid"

\* C7: no publish_resource call returns or raises with its scratch directory still
\* on disk.
C7_ScratchAlwaysRemoved == tmpdirs = {}

\* C8: a publish_resource call by a user who is not the owner of the resource
\* changes nothing: no persisted field, no scratch directory, no minted identifier.
C8_OnlyOwnerPublishes ==
  [][\A u \in Users, r \in RIDS, t \in PublishTypes, k \in BOOLEAN :
       \A x \in Answers(files[r], t, k) :
          (exists[r] /\ owner[r] # u /\ publish_resource(u, r, t, k, x))
             => UNCHANGED <<dbvars, tmpdirs, minted>>]_vars

HasRelationTo(rels, t, id) ==
  \E i \in 1..Len(rels) : rels[i] = [type |-> t, value |-> ResourceUrl(id)]

\* C9: when create_new_version_resource(R1, R2) has returned, R2 (the resource
\* create_empty_resource made last) has an isVersionOf relation to R1, R1 has an
\* isReplacedBy relation to R2, and R1 is immutable.
C9_VersionLinksBothWays ==
  last.op = "create_new_version_resource" =>
     /\ HasRelationTo(relations[nextId - 1], "isVersionOf", last.pk)
     /\ HasRelationTo(relations[last.pk], "isReplacedBy", nextId - 1)
     /\ raccess[last.pk].immutable

\* a new version R3 of a resource R2 that is itself a version of R1
C9_Witness ==
  /\ last.op = "create_new_version_resource"
  /\ HasRelation(relations[last.pk], "isVersionOf")
  /\ ~raccess[last.pk].published
  /\ Len(relations[nextId - 1]) = 1

\* C10: delete_resource on a resource that has an isReplacedBy relation raises
\* ValidationError and changes nothing: the resource still exists and no relation
\* or access flag of any resource changes.
C10_ObsoletedNotDeletable ==
  [][\A r \in RIDS :
       (/\ exists[r] /\ HasRelation(relations[r], "isReplacedBy")
        /\ last'.op = "delete_resource" /\ last'.pk = r)
          => /\ last'.err = "ValidationError"
             /\ UNCHANGED <<dbvars, tmpdirs, nextTmp, minted, pending>>]_vars

\* the deletion of a superseded resource was refused and its successor still exists
C10_Witness ==
  /\ last.op = "delete_resource" /\ last.err = "ValidationError"
  /\ exists[last.pk]
  /\ \E n \in RIDS : exists[n] /\ HasRelationTo(relations[n], "isVersionOf", last.pk)

\* the number of relation elements of type t
RECURSIVE CountRelations(_, _)
CountRelations(rels, t) ==
  IF rels = <<>> THEN 0
  ELSE (IF Head(rels).type = t THEN 1 ELSE 0) + CountRelations(Tail(rels), t)

\* C11: delete_resource on the head of a chain (a resource with an isVersionOf
\* relation and no isReplacedBy relation) deletes the head, and leaves its
\* predecessor with no isReplacedBy relation and mutable.
C11_DeleteHeadPromotesPredecessor ==
  [][\A r \in RIDS :
       (/\ exists[r]
        /\ HasRelation(relations[r], "isVersionOf")
        /\ ~HasRelation(relations[r], "isReplacedBy")
        /\ last'.op = "delete_resource" /\ last'.pk = r)
          => LET p == ShortIdOfUrl(FirstRelation(relations[r], "isVersionOf").value)
             IN /\ ~exists'[r]
                /\ ~HasRelation(relations'[p], "isReplacedBy")
                /\ ~raccess'[p].immutable]_vars

\* C12: the chain is linear: every resource has at most one isReplacedBy relation
\* and at most one isVersionOf relation.
C12_ChainIsLinear ==
  \A r \in RIDS :
    /\ CountRelations(relations[r], "isReplacedBy") <= 1
    /\ CountRelations(relations[r], "isVersionOf") <= 1

\* the number of times call c was made
RECURSIVE CountCalls(_, _)
CountCalls(trace, c) ==
  IF trace = <<>> THEN 0
  ELSE (IF Head(trace) = c THEN 1 ELSE 0) + CountCalls(Tail(trace), c)

\* C13: a publish run on a resource with exactly one file never calls create_bag
\* and never downloads an archive; the checksum, size and download url handed to
\* the registry are those of the single manifest entry.
C13_SingleFileFastPath ==
  (last.op = "publish_resource" /\ Len(files[last.pk]) = 1) =>
     LET entry == ManifestEntry(last.pk, files[last.pk][1], TRUE)
     IN /\ ~Did(last.trace, "create_bag")
        /\ ~Did(last.trace, "getFile")
        /\ last.sent.to = "minid" =>
             /\ last.sent.checksum = entry.sha256
             /\ last.sent.locations[2] = entry.url
        /\ last.sent.to = "doi" =>
             /\ last.sent.contentSize = entry.length
             /\ last.sent.contentUrl[1] = entry.url

\* a single-file resource was published with a doi
C13_Witness ==
  /\ last.op = "publish_resource" /\ last.err = "none"
  /\ Len(files[last.pk]) = 1
  /\ last.sent.to = "doi"

\* C15: a publish run on a resource with more than one file whose backend
\* collection does not exist raises ValidationError in the packaging step, before
\* create_bag, before the archive download, before the mint and before any
\* FairShake call, and leaves the access flags unchanged.
C15_MissingCollectionIsFatal ==
  [][\A u \in Users, r \in RIDS, t \in PublishTypes :
       (/\ last'.op = "publish_resource" /\ last'.pk = r
        /\ Len(files[r]) > 1
        /\ publish_resource(u, r, t, TRUE, [DefaultAnswers EXCEPT !.coll_exists = FALSE]))
          => /\ last'.err = "ValidationError" /\ last'.step = "package"
             /\ \A c \in {"create_bag", "getFile", "mint", "auth", "register"} :
                  ~Did(last'.trace, c)
             /\ UNCHANGED <<raccess, minted>>]_vars

\* the publish run of a two-file resource stopped at the missing collection
C15_Witness ==
  /\ last.op = "publish_resource" /\ last.step = "package"
  /\ last.err = "ValidationError"
  /\ Len(files[last.pk]) = 2
  /\ last.trace = <<"manifest", "makedirs">>

\* C16: when the FairShake login or registration fails after a successful mint,
\* the registry is not called again (the identifier stays issued) and the persisted
\* doi, minid and assessment id are what they were before the call.
C16_MintNotRolledBackNotPersisted ==
  [][(/\ last'.op = "publish_resource"
      /\ last'.err # "none"
      /\ last'.step \in {"auth", "register"}
      /\ Did(last'.trace, "mint"))
     => /\ CountCalls(last'.trace, "mint") = 1
        /\ minted' = minted + 1
        /\ UNCHANGED <<doi, minid, assessment_id>>]_vars

\* the login was refused after the first identifier was issued: nothing persisted
C16_Witness ==
  /\ last.op = "publish_resource" /\ last.step = "auth"
  /\ last.err = "PublishException"
  /\ minted = 1
  /\ ~Nonempty(doi[last.pk]) /\ ~Nonempty(minid[last.pk])

\* C17: a login answer other than 200 or a registration answer other than 201
\* raises PublishException; the registration is called only after a 200 login; the
\* assessment id of a resource changes only in a publish run whose registration
\* answered 201.
C17_RegistrationFailureIsFatal ==
  [][/\ last'.op = "publish_resource" =>
          /\ last'.resp.auth \notin {0, 200} =>
               /\ last'.err = "PublishException" /\ last'.step = "auth"
               /\ ~Did(last'.trace, "register") /\ ~Did(last'.trace, "save")
          /\ Did(last'.trace, "register") => last'.resp.auth = 200
          /\ last'.resp.register \notin {0, 201} =>
               /\ last'.err = "PublishException" /\ last'.step = "register"
               /\ ~Did(last'.trace, "save")
          /\ Did(last'.trace, "save") => last'.resp.register = 201
     /\ \A r \in RIDS :
          (exists'[r] /\ assessment_id'[r] # assessment_id[r])
             => /\ last'.op = "publish_resource" /\ last'.pk = r
                /\ last'.resp.register = 201]_vars

\* a registration answered 200 instead of 201 and the run was aborted
C17_Witness ==
  /\ last.op = "publish_resource"
  /\ last.resp.auth = 200 /\ last.resp.register = 200
  /\ last.err = "PublishException"
  /\ assessment_id[last.pk] = 0

\* C18: in one publish run the mint, the FairShake login and the FairShake
\* registration are each called at most once, and a run that one of them fails
\* ends with that call.
C18_NoRetry ==
  last.op = "publish_resource" =>
     /\ \A c \in {"mint", "auth", "register"} : CountCalls(last.trace, c) <= 1
     /\ (last.err # "none" /\ last.step \in {"mint", "auth", "register"})
          => last.trace[Len(last.trace)] = last.step

\* a failed mint ended the run
C18_Witness ==
  /\ last.op = "publish_resource" /\ last.step = "mint"
  /\ last.err \in {"MintError", "PublishException"}
  /\ last.trace[Len(last.trace)] = "mint"
  /\ ~Did(last.trace, "auth")

\* C19: create_empty_resource with action 'version' by a user who does not own the
\* resource raises PermissionDenied, creates no placeholder, and leaves every
\* relation and access flag unchanged.
C19_OnlyOwnerCreatesVersion ==
  [][\A u \in Users, r \in RIDS :
       (/\ last'.op = "create_empty_resource" /\ last'.pk = r
        /\ exists[r] /\ owner[r] # u
        /\ create_empty_resource(r, u, "version", TRUE, TRUE))
          => /\ last'.err = "PermissionDenied"
             /\ UNCHANGED <<nextId, exists, pending, relations, raccess>>]_vars

\* a version request was refused although a copy made by another user exists
C19_Witness ==
  /\ last.op = "create_empty_resource" /\ last.step = "version"
  /\ last.err = "PermissionDenied"
  /\ pending = NoPending
  /\ \E r \in RIDS : exists[r] /\ owner[r] # owner[last.pk]

\* C20: copying (create_empty_resource with action 'copy', then copy_resource) ends
\* with a source element on the copy that points at the original, with no
\* isVersionOf or isReplacedBy relation between the two, and with the original's
\* relations and access flags as they were.
C20_CopyIsNotAVersion ==
  [][/\ last'.op = "copy_resource" =>
          LET o == last'.pk
              n == pending.new
          IN /\ sources'[n] # <<>>
             /\ sources'[n][Len(sources'[n])] = ResourceUrl(o)
             /\ \A t \in {"isVersionOf", "isReplacedBy"} :
                  /\ ~HasRelationTo(relations'[n], t, o)
                  /\ ~HasRelationTo(relations'[o], t, n)
             /\ relations'[o] = relations[o]
             /\ raccess'[o] = raccess[o]
     /\ (last'.op = "create_empty_resource" /\ last'.step = "copy") =>
          /\ relations'[last'.pk] = relations[last'.pk]
          /\ raccess'[last'.pk] = raccess[last'.pk]]_vars

\* a copy was made of a superseded, immutable original
C20_Witness ==
  /\ last.op = "copy_resource"
  /\ HasRelation(relations[last.pk], "isReplacedBy")
  /\ raccess[last.pk].immutable
  /\ sources[nextId - 1] = <<ResourceUrl(last.pk)>>

C21_ChecksumFailureIsNotFatal ==
  (/\ last.op = "get_resource_files_manifest"
   /\ (last.arg.size_ok \/ ~HasReferenceFile(files[last.pk])))
  => /\ last.err = "none"
     /\ Len(last.ret) = Len(files[last.pk])
     /\ \A i \in 1..Len(last.ret) :
          LET f == files[last.pk][i]
              e == last.ret[i]
          IN /\ {"url", "length"} \subseteq DOMAIN e
             /\ e.length = (IF f.reference_file_path # <<>> THEN f.stored ELSE f.size)
             /\ i \in last.arg.failing => DOMAIN e \cap {"sha256", "md5"} = {}
             /\ (i \notin last.arg.failing /\ f.backend = "sha")
                  => ("sha256" \in DOMAIN e /\ e.sha256 = HexOf(f.digest))
             /\ (i \notin last.arg.failing /\ f.backend = "md5")
                  => ("md5" \in DOMAIN e /\ e.md5 = HexOf(f.digest))

\* the manifest of three files was built while the lookup of the second one failed
C21_Witness ==
  /\ last.op = "get_resource_files_manifest"
  /\ last.err = "none"
  /\ Len(files[last.pk]) = 3
  /\ last.arg.failing = {2}
  /\ Len(last.ret) = 3
  /\ "sha256" \in DOMAIN last.ret[1]

\* C22: a publish_resource call that returns without an exception has added one
\* Publisher element, one date element of type published and one Identifier
\* element, which names the kind and the value of the identifier the registry
\* issued in this call, the one the resource now holds; the user of the call has
\* been recorded as the one who modified the resource
C22_CommitAppendsRecords ==
  [][\A r \in RIDS :
       (last'.op = "publish_resource" /\ last'.pk = r /\ last'.err = "none")
       => /\ publishers'[r] = publishers[r] + 1
          /\ pubdates'[r] = pubdates[r] + 1
          /\ Len(idents'[r]) = Len(idents[r]) + 1
          /\ \A i \in 1..Len(idents[r]) : idents'[r][i] = idents[r][i]
          /\ minted' = minted + 1
          /\ LET id == idents'[r][Len(idents'[r])]
             IN /\ id.url[Len(id.url)] = minted'
                /\ id.name = "minid" => (minid'[r] = minted' /\ ~Nonempty(doi'[r]))
                /\ id.name = "doi" => (doi'[r] = minted' /\ ~Nonempty(minid'[r]))
                /\ id.name \in {"minid", "doi"}
          /\ last'.modified_by = last'.arg.user]_vars

\* user u2 has published, with a doi, a resource that already held the records
\* of an earlier publication
C22_Witness ==
  /\ last.op = "publish_resource" /\ last.err = "none"
  /\ last.modified_by = "u2"
  /\ publishers[last.pk] = 2 /\ pubdates[last.pk] = 2
  /\ Len(idents[last.pk]) = 2
  /\ idents[last.pk][2].name = "doi"
  /\ doi[last.pk] = minted

\* C23: the resource create_resource returns is private and mutable (not public,
\* not discoverable, not published, not immutable) and the user given as owner
\* is its owner
C23_CreatedPrivateMutableOwned ==
  last.op = "create_resource" =>
     /\ exists[last.pk]
     /\ ~raccess[last.pk].public /\ ~raccess[last.pk].discoverable
     /\ ~raccess[last.pk].published /\ ~raccess[last.pk].immutable
     /\ owner[last.pk] = last.arg.user

\* user u2 has created a resource of two files after user u1 had created one
C23_Witness ==
  /\ last.op = "create_resource"
  /\ last.pk = 2
  /\ last.arg.user = "u2"
  /\ owner[2] = "u2" /\ owner[1] = "u1"
  /\ Len(files[2]) = 2

\* C25: check_resource_files returns (True, the sum of the sizes of all files)
\* when every uploaded file is within FILE_SIZE_LIMIT and (False, -1) when some
\* uploaded file is larger than the limit
C25_FileSizeLimit ==
  last.op = "check_resource_files" =>
     LET fs == last.arg.files
         over == \E i \in 1..Len(fs) : fs[i].uploaded /\ SizeOf(fs[i]) > FILE_SIZE_LIMIT
     IN IF over THEN last.ret = <<FALSE, -1>>
        ELSE last.ret = <<TRUE, SumSizes(fs, 1)>>

\* the calls of a publish run in the order of the pipeline
StepOrder ==
  <<"manifest", "makedirs", "create_bag", "getFile", "mint", "rmtree", "auth",
    "register", "save", "flags", "Publisher", "date", "Identifier", "resource_modified">>

PositionOf(c) == CHOOSE i \in 1..Len(StepOrder) : StepOrder[i] = c

\* the calls of the trace appear in the order of the pipeline, none of them twice
InPipelineOrder(trace) ==
  \A i, j \in 1..Len(trace) : i < j => PositionOf(trace[i]) < PositionOf(trace[j])

\* C26: the steps of a publish run come in the order eligibility check, manifest
\* build, packaging, identifier mint, FairShake login, FairShake registration,
\* flag commit, each one only after the one before it has succeeded; the flags
\* are not committed unless the mint, the login and the registration of this run
\* have all succeeded
C26_StepsInOrderAndGated ==
  last.op = "publish_resource" =>
     /\ InPipelineOrder(last.trace)
     /\ last.step = "eligibility" => last.trace = <<>>
     /\ Did(last.trace, "mint") => Did(last.trace, "manifest")
     /\ Did(last.trace, "auth") => (Did(last.trace, "mint") /\ Did(last.trace, "rmtree"))
     /\ Did(last.trace, "register") => last.resp.auth = 200
     /\ Did(last.trace, "flags")
          => /\ Did(last.trace, "mint") /\ last.sent # NoRequest
             /\ last.resp.auth = 200
             /\ last.resp.register = 201

\* C27: a publish run on a resource with more than one file that gets as far as
\* the archive download has rebuilt the archive exactly when the bag_modified flag
\* was absent or was 'true' in any spelling of upper and lower case; with any
\* other value the stored archive is downloaded as it is
C27_RebuildOnlyWhenFlagged ==
  [][(/\ last'.op = "publish_resource"
      /\ UsesArchive(files[last'.pk])
      /\ Did(last'.trace, "getFile"))
     => (Did(last'.trace, "create_bag")
           <=> bag_modified[last'.pk] \in {"none", "true", "TRUE"})]_vars

\* a run found the flag 'False' and downloaded the stored archive of a resource
\* of three files without rebuilding it
C27_Witness ==
  /\ last.op = "publish_resource"
  /\ Len(files[last.pk]) = 3
  /\ ~Did(last.trace, "create_bag") /\ Did(last.trace, "getFile")
  /\ bag_modified[last.pk] = "False"
  /\ bags[last.pk].id = MaxTmp + 1
  /\ last.pack = [sha_checksum |-> BagChecksum(bags[last.pk], 1), size |-> 4]

\* C28: when create_new_version_resource(R1, R2) has returned and R1 is itself a
\* version of a resource R0, R2 has exactly one isVersionOf relation, and it
\* points to R1, not to R0
C28_InheritedVersionLinkReplaced ==
  (/\ last.op = "create_new_version_resource"
   /\ HasRelation(relations[last.pk], "isVersionOf"))
  => /\ CountRelations(relations[nextId - 1], "isVersionOf") = 1
     /\ FirstRelation(relations[nextId - 1], "isVersionOf").value = ResourceUrl(last.pk)
     /\ FirstRelation(relations[nextId - 1], "isVersionOf").value
          # FirstRelation(relations[last.pk], "isVersionOf").value

\* R3 has been created as a version of R2, which is a version of R1
C28_Witness ==
  /\ last.op = "create_new_version_resource"
  /\ last.pk = 2 /\ nextId = 4
  /\ HasRelationTo(relations[2], "isVersionOf", 1)
  /\ HasRelationTo(relations[3], "isVersionOf", 2)
  /\ CountRelations(relations[3], "isVersionOf") = 1

\* C29: get_resource_files_manifest returns one entry per file of the resource, in
\* the order the files are enumerated, each with url, length and filename; for a
\* reference file the length is the size the backend answers for the referenced
\* path and the filename is the last segment of that path
C29_ManifestOneEntryPerFile ==
  (last.op = "get_resource_files_manifest" /\ last.err = "none")
  => /\ Len(last.ret) = Len(files[last.pk])
     /\ \A i \in 1..Len(last.ret) :
          LET f == files[last.pk][i]
              e == last.ret[i]
          IN /\ {"url", "length", "filename"} \subseteq DOMAIN e
             /\ IF f.reference_file_path # <<>>
                THEN /\ e.length = f.stored
                     /\ e.filename = f.reference_file_path[Len(f.reference_file_path)]
                ELSE /\ e.length = f.size
                     /\ e.filename = f.file_name

\* the manifest of a reference file followed by two plain files, in that order
C29_Witness ==
  /\ last.op = "get_resource_files_manifest" /\ last.err = "none"
  /\ files[last.pk] = <<FRef, FSha, FOdd>>
  /\ last.ret[1].filename = "c.dat" /\ last.ret[1].length = 7
  /\ last.ret[2].filename = "a.txt"
  /\ last.ret[3].filename = "b.bin"

\* C30: delete_resource_file on a file that is found calls, in this order, the
\* pre-delete hook, the physical deletion, the format-metadata cleanup, the
\* post-delete hook, the public/discoverable recheck and the resource-modified
\* update; the recheck never comes before the post-delete hook
C30_DeleteFileStepOrder ==
  (last.op = "delete_resource_file" /\ last.err = "none")
  => last.trace = <<"pre_delete_file_from_resource",
                    "delete_resource_file_only",
                    "delete_format_metadata_after_delete_file",
                    "post_delete_file_from_resource",
                    "update_public_and_discoverable",
                    "resource_modified">>

\* the last file of a published resource was deleted and the recheck, made after
\* the post-delete hook, has taken the resource out of public view
C30_Witness ==
  /\ last.op = "delete_resource_file" /\ last.err = "none"
  /\ files[last.pk] = <<>>
  /\ raccess[last.pk].published
  /\ ~raccess[last.pk].discoverable /\ ~raccess[last.pk].public
  /\ last.trace[5] = "update_public_and_discoverable"

\* C34: a publish_resource call that ends with an error, whatever the error, leaves
\* the persisted public, discoverable, immutable, shareable and published flags of
\* the resource at the values they had before the call; this includes an unknown
\* publish type and a failing write of the Publisher, date or Identifier element.
C34_ErrorLeavesFlags ==
  [][(last'.op = "publish_resource" /\ last'.err # "none")
     => raccess'[last'.pk] = raccess[last'.pk]]_vars

\* the manifest of at most one file, built with the checksum lookups of `failing`
\* raising, has no entry with a sha256 field
NoSha256Entry(fs, failing) ==
  \/ Len(fs) = 0
  \/ Len(fs) = 1 /\ (1 \in failing \/ fs[1].backend # "sha")

\* C35: a publish_resource call on a resource with at most one file whose manifest
\* has no entry with a sha256 field (no file, a failed checksum lookup, or an md5
\* checksum) ends with an error before the identifier registry or FairShake is
\* called, and leaves the persisted flags and identifier fields as they were.
C35_NoSha256AbortsBeforeExternalCalls ==
  [][(/\ last'.op = "publish_resource"
      /\ NoSha256Entry(files[last'.pk], last'.arg.failing))
     => /\ last'.err # "none"
        /\ ~Did(last'.trace, "mint") /\ ~Did(last'.trace, "auth")
        /\ ~Did(last'.trace, "register")
        /\ last'.sent = NoRequest /\ last'.resp = NoResponses
        /\ minted' = minted
        /\ UNCHANGED <<raccess, doi, minid, assessment_id, idents>>]_vars

\* a publishable resource whose only file has an md5 checksum: the run made the
\* scratch directory and stopped at the missing sha256 field
C35_Witness ==
  /\ last.op = "publish_resource" /\ last.err = "KeyError"
  /\ Len(files[last.pk]) = 1 /\ files[last.pk][1].backend = "md5"
  /\ last.arg.failing = {}
  /\ Did(last.trace, "makedirs")

\* C36: in every state reached by completed version-creation and delete calls the
\* version relations are symmetric: a resource R holds an isReplacedBy relation to S
\* if and only if S exists and holds an isVersionOf relation to R.
C36_VersionRelationsSymmetric ==
  pending = NoPending =>
    \A r \in RIDS, s \in RIDS :
      (exists[r] /\ HasRelationTo(relations[r], "isReplacedBy", s))
        <=> (exists[s] /\ exists[r] /\ HasRelationTo(relations[s], "isVersionOf", r))

\* C37: in every state reached by completed version-creation and delete calls every
\* resource that holds an isReplacedBy relation is immutable.
C37_SupersededIsImmutable ==
  pending = NoPending =>
    \A r \in RIDS :
      (exists[r] /\ HasRelation(relations[r], "isReplacedBy")) => raccess[r].immutable

\* C38: create_new_version_resource is all-or-nothing for the lineage of the
\* original: when it raises after the isReplacedBy relation was added to the
\* original, the original is not left holding an isReplacedBy relation to the new
\* resource, and its immutable flag is as it was before the call.
C38_VersionCreationAllOrNothing ==
  [][(last'.op = "create_new_version_resource" /\ last'.err # "none")
     => /\ ~HasRelationTo(relations'[pending.ori], "isReplacedBy", pending.new)
        /\ raccess'[pending.ori].immutable = raccess[pending.ori].immutable]_vars

\* the call of caller p has made its scratch directory and has not removed it yet
HoldsScratch(p) == runs[p].pc \in {"flag", "bag", "get", "size", "mint"}

\* C31: two publish runs that execute concurrently, on the same or on different
\* resources, never use the same scratch directory, and the directory of a run is
\* on disk for as long as the run needs it: the cleanup of one run never removes
\* the directory of the other.
C31_ScratchNotShared ==
  \A p \in Procs :
    HoldsScratch(p) =>
      /\ runs[p].l.tmpdir \in tmpdirs
      /\ \A q \in Procs \ {p} :
           HoldsScratch(q) => runs[q].l.tmpdir # runs[p].l.tmpdir

\* a run has removed its scratch directory while a run on the same resource that
\* started during it still holds its own
C31_Witness ==
  \E p \in Procs, q \in Procs :
    /\ p # q
    /\ Did(runs[p].l.trace, "rmtree")
    /\ HoldsScratch(q) /\ runs[q].pc = "get"
    /\ runs[p].l.res = runs[q].l.res
    /\ p \in runs[q].with

\* no publish run has begun to write to resource pk
NoCommitYet(pk) ==
  \A q \in Procs : runs[q].l.res = pk => ~Did(runs[q].l.trace, "save")

Overlap(p, q) == q \in runs[p].with \/ p \in runs[q].with

\* every Identifier element of the resource names an identifier the resource holds
IdentifiersNameHeld(pk) ==
  \A i \in 1..Len(idents[pk]) :
    \/ /\ idents[pk][i].name = "doi" /\ Nonempty(doi[pk])
       /\ idents[pk][i].url = <<"ors.datacite.org", doi[pk]>>
    \/ /\ idents[pk][i].name = "minid" /\ Nonempty(minid[pk])
       /\ idents[pk][i].url = <<"minid.bd2k.org", minid[pk]>>

\* C39: when two publish attempts on the same resource, one of type minid and one
\* of type doi, interleave and both complete, the persisted resource has exactly
\* one of doi and minid non-empty and its Identifier elements name exactly that
\* identifier.
C39_InterleavedPublishKeepsOneIdentifier ==
  \A p \in Procs, q \in Procs :
    (/\ p # q /\ Overlap(p, q)
     /\ runs[p].pc = "done" /\ runs[p].l.err = "none"
     /\ runs[q].pc = "done" /\ runs[q].l.err = "none"
     /\ runs[p].l.res = runs[q].l.res
     /\ Lower(runs[p].l.ptype) = "minid" /\ Lower(runs[q].l.ptype) = "doi")
    => /\ Nonempty(doi[runs[p].l.res]) # Nonempty(minid[runs[p].l.res])
       /\ IdentifiersNameHeld(runs[p].l.res)

\* C33: every publish attempt terminates, provided each external call returns: a
\* call that has started reaches its end, and the end of a call on a draft
\* resource is either the resource published and no error, or an error and the
\* resource still a draft.
C33_PublishTerminatesPublishedOrDraft ==
  /\ \A p \in Procs : InFlight(p) ~> (runs[p].pc = "done")
  /\ [](\A p \in Procs :
          (runs[p].pc = "done" /\ runs[p].draft) =>
             \/ /\ runs[p].l.err = "none"
                /\ IsPublishedAccess(raccess[runs[p].l.res])
             \/ /\ runs[p].l.err # "none"
                /\ ~raccess[runs[p].l.res].published)
====
